---- MODULE Spec2Model ----
(***************************************************************************)
(* Flight-Search-Engine: the flight store (src/store/flightStore.ts), the   *)
(* pure filter / sort / projection / duration functions it is built on and *)
(* the offer transformers (src/lib/flightTransformers.ts), the filter      *)
(* panel, search page and price chart that call the store, and the token   *)
(* cache of the Amadeus client.                                            *)
(*                                                                         *)
(* Strings that the code inspects character by character (durations and    *)
(* their labels, "HH:mm" times, airline names that get sorted) are looked  *)
(* up in CharsOf, which gives their sequence of one-character strings.     *)
(* Prices are JavaScript numbers with a fractional part; they are held as  *)
(* integers counted in 1/PriceScale of a currency unit, so that Math.floor *)
(* and Math.ceil are exact.                                                *)
(***************************************************************************)
EXTENDS Integers, Sequences, FiniteSets, Bags, TLC

VARIABLES allFlights, isLoading, error, filters,
          filteredFlights, chartData, availableAirlines, absolutePriceRange,
          engineState, lastViewOp, call, ret,
          fetches, localPriceRange, cachedToken, tokenExpiryTime, now,
          clientCalls

vars == <<allFlights, isLoading, error, filters,
          filteredFlights, chartData, availableAirlines, absolutePriceRange,
          engineState, lastViewOp, call, ret,
          fetches, localPriceRange, cachedToken, tokenExpiryTime, now,
          clientCalls>>

\* engineState and lastViewOp are history variables, not fields of the store:
\* engineState is "Empty" until the first setFlights and again after
\* clearSearch, "Populated" otherwise; lastViewOp names the last operation
\* that published filters and the derived view (setLoading and setError
\* publish neither).
\*
\* call and ret observe one function call from outside: call holds the
\* arguments a caller has built, ret what the callee returned.  The store's
\* own actions read and write neither.
storeVars == <<allFlights, isLoading, error, filters,
               filteredFlights, chartData, availableAirlines, absolutePriceRange,
               engineState, lastViewOp>>

\* fetches are the runs of the search page's fetchFlights, in the order they
\* were started; localPriceRange is the filter panel's useState copy of the
\* price window.
pageVars == <<fetches, localPriceRange>>

\* cachedToken and tokenExpiryTime are the module-level variables of the
\* Amadeus client, now is what Date.now() reads and clientCalls are the calls
\* of its searchFlights that are under way.
clientVars == <<cachedToken, tokenExpiryTime, now, clientCalls>>

nonStoreVars == <<call, ret, pageVars, clientVars>>

NoCall == [op |-> "none"]

NoReturn == <<>>

(***************************************************************************)
(* Bounds of the model.                                                    *)
(***************************************************************************)
MaxFlights == 3
MaxPartialFields == 2
MaxDigits == 2
MaxSegments == 3
MaxBatch == 2
MaxFetches == 3
MaxCalls == 2
MaxTicks == 2

(***************************************************************************)
(* Numbers.                                                                *)
(***************************************************************************)
PriceScale == 100

Units(n) == n * PriceScale

\* Math.floor / Math.ceil of a price held in 1/PriceScale units
MathFloor(p) == (p \div PriceScale) * PriceScale
MathCeil(p) == ((p + PriceScale - 1) \div PriceScale) * PriceScale

RECURSIVE SeqMin(_)
SeqMin(s) ==
  IF Len(s) = 1 THEN s[1]
  ELSE LET m == SeqMin(Tail(s)) IN IF s[1] < m THEN s[1] ELSE m

RECURSIVE SeqMax(_)
SeqMax(s) ==
  IF Len(s) = 1 THEN s[1]
  ELSE LET m == SeqMax(Tail(s)) IN IF s[1] > m THEN s[1] ELSE m

(***************************************************************************)
(* Strings as sequences of characters.                                     *)
(***************************************************************************)
Digits == {"0", "1", "2", "3", "4", "5", "6", "7", "8", "9"}

\* UTF-16 code unit of the characters that occur in the model
CharCode ==
  (" " :> 32) @@
  ("0" :> 48) @@ ("1" :> 49) @@ ("2" :> 50) @@ ("3" :> 51) @@ ("4" :> 52) @@
  ("5" :> 53) @@ ("6" :> 54) @@ ("7" :> 55) @@ ("8" :> 56) @@ ("9" :> 57) @@
  (":" :> 58) @@
  ("A" :> 65) @@ ("D" :> 68) @@ ("U" :> 85) @@ ("Z" :> 90) @@
  ("a" :> 97) @@ ("d" :> 100) @@ ("e" :> 101) @@ ("h" :> 104) @@
  ("i" :> 105) @@ ("k" :> 107) @@ ("l" :> 108) @@ ("m" :> 109) @@
  ("n" :> 110) @@ ("s" :> 115) @@ ("t" :> 116)

DigitVal(c) == CharCode[c] - 48

\* comparison of two strings by code units: -1, 0 or 1
RECURSIVE StrCompare(_, _)
StrCompare(a, b) ==
  IF a = <<>> /\ b = <<>> THEN 0
  ELSE IF a = <<>> THEN -1
  ELSE IF b = <<>> THEN 1
  ELSE IF CharCode[a[1]] < CharCode[b[1]] THEN -1
  ELSE IF CharCode[a[1]] > CharCode[b[1]] THEN 1
  ELSE StrCompare(Tail(a), Tail(b))

\* the string made of a sequence of characters
RECURSIVE StrOf(_)
StrOf(c) == IF c = <<>> THEN "" ELSE c[1] \o StrOf(Tail(c))

\* the digit strings of at most n digits over D, the empty one included
RECURSIVE DigitStringsUpTo(_, _)
DigitStringsUpTo(D, n) ==
  IF n = 0 THEN {<<>>}
  ELSE LET shorter == DigitStringsUpTo(D, n - 1) IN
       shorter \cup
       { Append(x, c) : x \in {y \in shorter : Len(y) = n - 1}, c \in D }

HourDigits == {"0", "2"}

MinuteDigits == {"0", "3"}

\* the digits of an ISO-8601 component; <<>> when the component is absent
HourComponents == DigitStringsUpTo(HourDigits, MaxDigits)

MinuteComponents == DigitStringsUpTo(MinuteDigits, MaxDigits)

\* "PT" [ digits "H" ] [ digits "M" ]
IsoChars(h, m) ==
  <<"P", "T">> \o (IF h = <<>> THEN <<>> ELSE h \o <<"H">>)
               \o (IF m = <<>> THEN <<>> ELSE m \o <<"M">>)

\* strings without a "PT": the empty string, a duration without its
\* designator, a duration with a day component
MalformedDurations ==
  { <<>>,
    <<"2", "H", "3", "0", "M">>,
    <<"P", "1", "D", "T", "2", "H">> }

\* the decimal numerals a template literal renders a positive number as
Numerals(D) == {x \in DigitStringsUpTo(D, MaxDigits) : x # <<>> /\ x[1] # "0"}

\* "{h}h {m}m", "{h}h" and "{m}m"
LabelChars(h, m) ==
  (IF h = <<>> THEN <<>> ELSE h \o <<"h">>)
    \o (IF h # <<>> /\ m # <<>> THEN <<" ">> ELSE <<>>)
    \o (IF m = <<>> THEN <<>> ELSE m \o <<"m">>)

\* every duration string of the model, as characters: the raw durations and
\* the labels they are rendered as
DurationPool ==
  { IsoChars(h, m) : h \in HourComponents, m \in MinuteComponents }
    \cup MalformedDurations
    \cup { LabelChars(h, m) : h \in Numerals(HourDigits) \cup {<<>>},
                              m \in Numerals(MinuteDigits) \cup {<<>>} }

DurationCharsOf ==
  [str \in {StrOf(c) : c \in DurationPool} |->
     CHOOSE c \in DurationPool : StrOf(c) = str]

\* the characters of the strings that the model's flights carry
CharsOf ==
  DurationCharsOf @@
  ("Delta" :> <<"D", "e", "l", "t", "a">>) @@
  ("United" :> <<"U", "n", "i", "t", "e", "d">>) @@
  ("Alaska" :> <<"A", "l", "a", "s", "k", "a">>) @@
  ("Zed" :> <<"Z", "e", "d">>) @@
  ("06:15" :> <<"0", "6", ":", "1", "5">>) @@
  ("07:00" :> <<"0", "7", ":", "0", "0">>) @@
  ("08:00" :> <<"0", "8", ":", "0", "0">>) @@
  ("09:30" :> <<"0", "9", ":", "3", "0">>) @@
  ("11:30" :> <<"1", "1", ":", "3", "0">>) @@
  ("12:00" :> <<"1", "2", ":", "0", "0">>) @@
  ("21:30" :> <<"2", "1", ":", "3", "0">>) @@
  ("3h 30m" :> <<"3", "h", " ", "3", "0", "m">>) @@
  ("5h 45m" :> <<"5", "h", " ", "4", "5", "m">>) @@
  ("12h" :> <<"1", "2", "h">>) @@
  ("45m" :> <<"4", "5", "m">>) @@
  ("30m" :> <<"3", "0", "m">>) @@
  ("99.50" :> <<"9", "9", ".", "5", "0">>)

Chars(str) == CharsOf[str]

\* String.prototype.localeCompare on the strings of the model (digits and
\* ':' of "HH:mm" labels, whose collation order is their code-unit order)
localeCompare(a, b) == StrCompare(Chars(a), Chars(b))

(***************************************************************************)
(* The regular expression of parseDurationToMinutes and parseInt.          *)
(***************************************************************************)
\* index of the first character at or after i that is not a digit
RECURSIVE DigitRunEnd(_, _)
DigitRunEnd(s, i) ==
  IF i > Len(s) THEN i
  ELSE IF s[i] \in Digits THEN DigitRunEnd(s, i + 1) ELSE i

\* index of the first character at or after i that is not white space
RECURSIVE SkipSpaces(_, _)
SkipSpaces(s, i) ==
  IF i > Len(s) THEN i
  ELSE IF s[i] = " " THEN SkipSpaces(s, i + 1) ELSE i

\* parseInt of a non-empty string of decimal digits
RECURSIVE ParseInt(_)
ParseInt(s) ==
  IF s = <<>> THEN 0
  ELSE ParseInt(SubSeq(s, 1, Len(s) - 1)) * 10 + DigitVal(s[Len(s)])

\* /(\d+)h/ matches at position i: a greedy run of digits directly
\* followed by 'h' (a shorter run is followed by a digit, never by 'h')
HoursMatchAt(s, i) ==
  /\ i <= Len(s)
  /\ s[i] \in Digits
  /\ DigitRunEnd(s, i) <= Len(s)
  /\ s[DigitRunEnd(s, i)] = "h"

\* leftmost position at which the expression matches, 0 when there is none
RECURSIVE FirstHoursMatch(_, _)
FirstHoursMatch(s, i) ==
  IF i > Len(s) THEN 0
  ELSE IF HoursMatchAt(s, i) THEN i ELSE FirstHoursMatch(s, i + 1)

parseDurationToMinutes(duration) ==
  LET d == Chars(duration)
      i == FirstHoursMatch(d, 1)
  IN IF i = 0 THEN 0
     ELSE LET j == DigitRunEnd(d, i)      \* the 'h'
              k == SkipSpaces(d, j + 1)   \* \s*
              e == DigitRunEnd(d, k)      \* (\d+)?
              hours == ParseInt(SubSeq(d, i, j - 1))
              minutes == ParseInt(SubSeq(d, k, e - 1))  \* NaN || 0
          IN hours * 60 + minutes

(***************************************************************************)
(* parseDuration: /PT(?:(\d+)H)?(?:(\d+)M)?/ and the template literals.    *)
(***************************************************************************)
\* leftmost position of "PT" at or after i, 0 when there is none
RECURSIVE FirstPT(_, _)
FirstPT(s, i) ==
  IF i + 1 > Len(s) THEN 0
  ELSE IF s[i] = "P" /\ s[i + 1] = "T" THEN i ELSE FirstPT(s, i + 1)

\* (?:(\d+)X)? tried at position i: the position behind the group when a
\* greedy run of digits is directly followed by X, i when the group is skipped
GroupEnd(s, i, X) ==
  IF /\ i <= Len(s)
     /\ s[i] \in Digits
     /\ DigitRunEnd(s, i) <= Len(s)
     /\ s[DigitRunEnd(s, i)] = X
  THEN DigitRunEnd(s, i) + 1
  ELSE i

\* the label chosen by which components were captured, zero or not
parseDuration_byPresence(duration) ==
  LET d == Chars(duration)
      p == FirstPT(d, 1)
      a == p + 2
      b == GroupEnd(d, a, "H")
      c == GroupEnd(d, b, "M")
      hours == IF b > a THEN ParseInt(SubSeq(d, a, b - 2)) ELSE 0
      minutes == IF c > b THEN ParseInt(SubSeq(d, b, c - 2)) ELSE 0
  IN IF p = 0 THEN duration
     ELSE IF b > a /\ c > b
       THEN ToString(hours) \o "h " \o ToString(minutes) \o "m"
     ELSE IF b > a THEN ToString(hours) \o "h"
     ELSE IF c > b THEN ToString(minutes) \o "m"
     ELSE duration

parseDuration(duration) ==
  LET d == Chars(duration)
      p == FirstPT(d, 1)                  \* match.index
      a == p + 2                          \* behind "PT"
      b == GroupEnd(d, a, "H")            \* match[1] is d[a .. b-2]
      c == GroupEnd(d, b, "M")            \* match[2] is d[b .. c-2]
      hours == IF b > a THEN ParseInt(SubSeq(d, a, b - 2)) ELSE 0
      minutes == IF c > b THEN ParseInt(SubSeq(d, b, c - 2)) ELSE 0
  IN IF p = 0 THEN duration
     ELSE IF hours # 0 /\ minutes # 0
       THEN ToString(hours) \o "h " \o ToString(minutes) \o "m"
     ELSE IF hours # 0 THEN ToString(hours) \o "h"
     ELSE IF minutes # 0 THEN ToString(minutes) \o "m"
     ELSE duration

(***************************************************************************)
(* sortFlights.                                                            *)
(***************************************************************************)
SortKeys == {"price", "duration", "departure", "arrival"}

\* arrival compared on the departure time
CompareFlights_arrivalByDeparture(sortBy, a, b) ==
  CASE sortBy = "price" -> a.price - b.price
    [] sortBy = "duration" ->
         parseDurationToMinutes(a.duration) - parseDurationToMinutes(b.duration)
    [] sortBy = "departure" -> localeCompare(a.departureTime, b.departureTime)
    [] sortBy = "arrival" -> localeCompare(a.departureTime, b.departureTime)
    [] OTHER -> 0

\* a comparator that never answers zero, (a, b) => a.price < b.price ? -1 : 1
CompareFlights_neverEqual(sortBy, a, b) ==
  CASE sortBy = "price" -> IF a.price < b.price THEN -1 ELSE 1
    [] sortBy = "duration" ->
         IF parseDurationToMinutes(a.duration) < parseDurationToMinutes(b.duration)
         THEN -1 ELSE 1
    [] sortBy = "departure" ->
         IF localeCompare(a.departureTime, b.departureTime) < 0 THEN -1 ELSE 1
    [] sortBy = "arrival" ->
         IF localeCompare(a.arrivalTime, b.arrivalTime) < 0 THEN -1 ELSE 1
    [] OTHER -> 0

\* the comparator handed to Array.prototype.sort: negative, zero or positive
CompareFlights(sortBy, a, b) ==
  CASE sortBy = "price" -> a.price - b.price
    [] sortBy = "duration" ->
         parseDurationToMinutes(a.duration) - parseDurationToMinutes(b.duration)
    [] sortBy = "departure" -> localeCompare(a.departureTime, b.departureTime)
    [] sortBy = "arrival" -> localeCompare(a.arrivalTime, b.arrivalTime)
    [] OTHER -> 0

\* x goes behind the last element that does not compare greater than x
RECURSIVE InsertSorted(_, _, _)
InsertSorted(cmpKey, sorted, x) ==
  IF sorted = <<>> THEN <<x>>
  ELSE LET last == sorted[Len(sorted)] IN
       IF CompareFlights(cmpKey, last, x) <= 0 THEN Append(sorted, x)
       ELSE Append(InsertSorted(cmpKey, SubSeq(sorted, 1, Len(sorted) - 1), x), last)

\* Array.prototype.sort with a comparator: a stable sort (ECMAScript 2019)
RECURSIVE ArraySort(_, _)
ArraySort(cmpKey, s) ==
  IF s = <<>> THEN <<>>
  ELSE InsertSorted(cmpKey, ArraySort(cmpKey, SubSeq(s, 1, Len(s) - 1)), s[Len(s)])

sortFlights(flights, sortBy) ==
  IF sortBy \in SortKeys THEN ArraySort(sortBy, flights) ELSE flights

(***************************************************************************)
(* filterFlights.                                                          *)
(***************************************************************************)
\* the test inverted: a flight inside the window is dropped
PricePasses_inverted(flight, f) ==
  flight.price < f.priceRange.min \/ flight.price > f.priceRange.max

\* the price window with its bounds excluded
PricePasses_exclusive(flight, f) ==
  ~(flight.price <= f.priceRange.min \/ flight.price >= f.priceRange.max)

PricePasses(flight, f) ==
  ~(flight.price < f.priceRange.min \/ flight.price > f.priceRange.max)

\* every bucket, 2 included, matched exactly
StopsPasses_exact(flight, f) ==
  Len(f.stops) > 0 =>
    \E i \in 1..Len(f.stops) : flight.stops = f.stops[i]

StopsPasses(flight, f) ==
  Len(f.stops) > 0 =>
    \E i \in 1..Len(f.stops) :
      IF f.stops[i] = 2 THEN flight.stops >= 2 ELSE flight.stops = f.stops[i]

\* without the test for an empty selection
AirlinesPasses_noEmptyCheck(flight, f) ==
  \E i \in 1..Len(f.airlines) : f.airlines[i] = flight.airline

AirlinesPasses(flight, f) ==
  ~(Len(f.airlines) > 0 /\ ~(\E i \in 1..Len(f.airlines) : f.airlines[i] = flight.airline))

FlightPasses(flight, f) ==
  PricePasses(flight, f) /\ StopsPasses(flight, f) /\ AirlinesPasses(flight, f)

filterFlights(flights, f) ==
  LET Keep(flight) == FlightPasses(flight, f) IN SelectSeq(flights, Keep)

(***************************************************************************)
(* generatePriceChartData, extractUniqueAirlines, extractPriceRange.       *)
(***************************************************************************)
generatePriceChartData(flights) ==
  [i \in 1..Len(flights) |->
    [time |-> flights[i].departureTime,
     price |-> flights[i].price,
     flightId |-> flights[i].id,
     stops |-> flights[i].stops,
     airline |-> flights[i].airline]]

\* new Set(array): the distinct elements in order of first occurrence
RECURSIVE Distinct(_)
Distinct(s) ==
  IF s = <<>> THEN <<>>
  ELSE LET front == Distinct(SubSeq(s, 1, Len(s) - 1)) IN
       IF \E i \in 1..Len(front) : front[i] = s[Len(s)] THEN front
       ELSE Append(front, s[Len(s)])

RECURSIVE InsertString(_, _)
InsertString(sorted, x) ==
  IF sorted = <<>> THEN <<x>>
  ELSE LET last == sorted[Len(sorted)] IN
       IF StrCompare(Chars(last), Chars(x)) <= 0 THEN Append(sorted, x)
       ELSE Append(InsertString(SubSeq(sorted, 1, Len(sorted) - 1), x), last)

\* Array.prototype.sort without a comparator, on strings: code-unit order
RECURSIVE DefaultSort(_)
DefaultSort(s) ==
  IF s = <<>> THEN <<>>
  ELSE InsertString(DefaultSort(SubSeq(s, 1, Len(s) - 1)), s[Len(s)])

\* the distinct names without the sort
extractUniqueAirlines_unsorted(flights) ==
  Distinct([i \in 1..Len(flights) |-> flights[i].airline])

extractUniqueAirlines(flights) ==
  DefaultSort(Distinct([i \in 1..Len(flights) |-> flights[i].airline]))

\* the bounds without Math.floor and Math.ceil
extractPriceRange_unrounded(flights) ==
  IF Len(flights) = 0 THEN [min |-> Units(0), max |-> Units(1000)]
  ELSE LET prices == [i \in 1..Len(flights) |-> flights[i].price] IN
       [min |-> SeqMin(prices), max |-> SeqMax(prices)]

\* the upper bound rounded down like the lower one
extractPriceRange_floorMax(flights) ==
  IF Len(flights) = 0 THEN [min |-> Units(0), max |-> Units(1000)]
  ELSE LET prices == [i \in 1..Len(flights) |-> flights[i].price] IN
       [min |-> MathFloor(SeqMin(prices)), max |-> MathFloor(SeqMax(prices))]

extractPriceRange(flights) ==
  IF Len(flights) = 0 THEN [min |-> Units(0), max |-> Units(1000)]
  ELSE LET prices == [i \in 1..Len(flights) |-> flights[i].price] IN
       [min |-> MathFloor(SeqMin(prices)), max |-> MathCeil(SeqMax(prices))]

(***************************************************************************)
(* Inputs: the flights a search can return, and the filter values a caller *)
(* can pass.                                                               *)
(***************************************************************************)
Flight(id, airline, dep, arr, dur, stops, price) ==
  [id |-> id, airline |-> airline, departureTime |-> dep, arrivalTime |-> arr,
   duration |-> dur, stops |-> stops, price |-> price]

Catalogue ==
  { Flight("1", "Delta",  "08:00", "11:30", "3h 30m", 0, Units(100)),
    Flight("2", "United", "06:15", "12:00", "5h 45m", 1, Units(250)),
    Flight("3", "Delta",  "09:30", "21:30", "12h",    2, Units(900)),
    Flight("4", "Alaska", "06:15", "07:00", "45m",    3, Units(99) + 50) }

\* the lists of at most n flights with distinct ids
RECURSIVE FlightListsUpTo(_)
FlightListsUpTo(n) ==
  IF n = 0 THEN {<<>>}
  ELSE LET shorter == FlightListsUpTo(n - 1) IN
       shorter \cup
       { Append(l, f) : l \in {x \in shorter : Len(x) = n - 1},
                        f \in Catalogue }

HasDistinctIds(l) == \A i, j \in 1..Len(l) : i # j => l[i].id # l[j].id

FlightLists == {l \in FlightListsUpTo(MaxFlights) : HasDistinctIds(l)}

PriceRangeChoices ==
  { [min |-> Units(200), max |-> Units(1000)],
    [min |-> Units(250), max |-> Units(900)] }

StopsChoices == { <<2>>, <<1, 3>> }

AirlinesChoices == { <<"Delta", "Zed">> }

\* an optional field of Partial<FlightFilters>: {} when absent, {v} when present
Optional(S) == {{}} \cup {{v} : v \in S}

FieldsPresent(p) ==
  Cardinality(p.priceRange) + Cardinality(p.stops) +
  Cardinality(p.airlines) + Cardinality(p.sortBy)

PartialFilters ==
  { p \in [priceRange : Optional(PriceRangeChoices),
           stops : Optional(StopsChoices),
           airlines : Optional(AirlinesChoices),
           sortBy : Optional(SortKeys)] : FieldsPresent(p) <= MaxPartialFields }

\* the spread in the wrong order, { ...partialFilters, ...state.filters }
Spread_stateLast(old, opt) == old

\* the field of { ...state.filters, ...partialFilters }
Spread(old, opt) == IF opt = {} THEN old ELSE CHOOSE v \in opt : TRUE

Null == "null"

\* Date.now() when the server starts, in milliseconds
StartTime == 1000000

ErrorValues == {Null, "Failed to fetch flights"}

(***************************************************************************)
(* The store.                                                              *)
(***************************************************************************)
DEFAULT_FILTERS ==
  [priceRange |-> [min |-> Units(0), max |-> Units(10000)],
   stops |-> <<>>,
   airlines |-> <<>>,
   sortBy |-> "price"]

applyFiltersAndSort(flights, f) ==
  sortFlights(filterFlights(flights, f), f.sortBy)

Init ==
  /\ allFlights = <<>>
  /\ isLoading = FALSE
  /\ error = Null
  /\ filters = DEFAULT_FILTERS
  /\ filteredFlights = <<>>
  /\ chartData = <<>>
  /\ availableAirlines = <<>>
  /\ absolutePriceRange = [min |-> Units(0), max |-> Units(10000)]
  /\ engineState = "Empty"
  /\ lastViewOp = "init"
  /\ call = NoCall
  /\ ret = NoReturn
  /\ fetches = <<>>
  /\ localPriceRange = DEFAULT_FILTERS.priceRange
  /\ cachedToken = Null
  /\ tokenExpiryTime = {}
  /\ now = StartTime
  /\ clientCalls = EmptyBag

\* What each store action writes with set(...).  A caller that runs several
\* of them in one event handler, or writes state of its own in the same
\* handler, is built from these; called with nothing else going on, an action
\* leaves everything outside the store as it is.
StoreSetFlights(flights) ==
  LET priceRange == extractPriceRange(flights)
      airlines == extractUniqueAirlines(flights)
      newFilters == [DEFAULT_FILTERS EXCEPT !.priceRange = priceRange]
      filtered == applyFiltersAndSort(flights, newFilters)
  IN /\ allFlights' = flights
     /\ filteredFlights' = filtered
     /\ chartData' = generatePriceChartData(filtered)
     /\ availableAirlines' = airlines
     /\ absolutePriceRange' = priceRange
     /\ filters' = newFilters
     /\ isLoading' = FALSE
     /\ error' = Null
     /\ engineState' = "Populated"
     /\ lastViewOp' = "setFlights"

StoreSetLoading(loading) ==
  /\ isLoading' = loading
  /\ UNCHANGED <<allFlights, error, filters, filteredFlights, chartData,
                 availableAirlines, absolutePriceRange, engineState, lastViewOp>>

StoreSetError(e) ==
  /\ error' = e
  /\ isLoading' = FALSE
  /\ UNCHANGED <<allFlights, filters, filteredFlights, chartData,
                 availableAirlines, absolutePriceRange, engineState, lastViewOp>>

StoreUpdateFilters(partialFilters) ==
  LET newFilters ==
        [priceRange |-> Spread(filters.priceRange, partialFilters.priceRange),
         stops |-> Spread(filters.stops, partialFilters.stops),
         airlines |-> Spread(filters.airlines, partialFilters.airlines),
         sortBy |-> Spread(filters.sortBy, partialFilters.sortBy)]
      filtered == applyFiltersAndSort(allFlights, newFilters)
  IN /\ filters' = newFilters
     /\ filteredFlights' = filtered
     /\ chartData' = generatePriceChartData(filtered)
     /\ lastViewOp' = "updateFilters"
     /\ UNCHANGED <<allFlights, isLoading, error, availableAirlines,
                    absolutePriceRange, engineState>>

\* the new filters spread from the current filters instead of the defaults
setFlights_keepsFilters(flights) ==
  LET priceRange == extractPriceRange(flights)
      airlines == extractUniqueAirlines(flights)
      newFilters == [filters EXCEPT !.priceRange = priceRange]
      filtered == applyFiltersAndSort(flights, newFilters)
  IN /\ allFlights' = flights
     /\ filteredFlights' = filtered
     /\ chartData' = generatePriceChartData(filtered)
     /\ availableAirlines' = airlines
     /\ absolutePriceRange' = priceRange
     /\ filters' = newFilters
     /\ isLoading' = FALSE
     /\ error' = Null
     /\ engineState' = "Populated"
     /\ lastViewOp' = "setFlights"
     /\ UNCHANGED nonStoreVars

setFlights(flights) ==
  /\ StoreSetFlights(flights)
  /\ UNCHANGED nonStoreVars

setLoading(loading) ==
  /\ StoreSetLoading(loading)
  /\ UNCHANGED nonStoreVars

setError(e) ==
  /\ StoreSetError(e)
  /\ UNCHANGED nonStoreVars

\* the chart projected from the working set instead of the view
updateFilters_chartOfAll(partialFilters) ==
  LET newFilters ==
        [priceRange |-> Spread(filters.priceRange, partialFilters.priceRange),
         stops |-> Spread(filters.stops, partialFilters.stops),
         airlines |-> Spread(filters.airlines, partialFilters.airlines),
         sortBy |-> Spread(filters.sortBy, partialFilters.sortBy)]
      filtered == applyFiltersAndSort(allFlights, newFilters)
  IN /\ filters' = newFilters
     /\ filteredFlights' = filtered
     /\ chartData' = generatePriceChartData(allFlights)
     /\ lastViewOp' = "updateFilters"
     /\ UNCHANGED <<allFlights, isLoading, error, availableAirlines,
                    absolutePriceRange, engineState>>
     /\ UNCHANGED nonStoreVars

\* the filters published without recomputing the view
updateFilters_staleView(partialFilters) ==
  LET newFilters ==
        [priceRange |-> Spread(filters.priceRange, partialFilters.priceRange),
         stops |-> Spread(filters.stops, partialFilters.stops),
         airlines |-> Spread(filters.airlines, partialFilters.airlines),
         sortBy |-> Spread(filters.sortBy, partialFilters.sortBy)]
  IN /\ filters' = newFilters
     /\ lastViewOp' = "updateFilters"
     /\ UNCHANGED <<allFlights, isLoading, error, filteredFlights, chartData,
                    availableAirlines, absolutePriceRange, engineState>>
     /\ UNCHANGED nonStoreVars

\* the airline list recomputed from the view
updateFilters_airlinesOfView(partialFilters) ==
  LET newFilters ==
        [priceRange |-> Spread(filters.priceRange, partialFilters.priceRange),
         stops |-> Spread(filters.stops, partialFilters.stops),
         airlines |-> Spread(filters.airlines, partialFilters.airlines),
         sortBy |-> Spread(filters.sortBy, partialFilters.sortBy)]
      filtered == applyFiltersAndSort(allFlights, newFilters)
  IN /\ filters' = newFilters
     /\ filteredFlights' = filtered
     /\ chartData' = generatePriceChartData(filtered)
     /\ availableAirlines' = extractUniqueAirlines(filtered)
     /\ lastViewOp' = "updateFilters"
     /\ UNCHANGED <<allFlights, isLoading, error, absolutePriceRange, engineState>>
     /\ UNCHANGED nonStoreVars

updateFilters(partialFilters) ==
  /\ StoreUpdateFilters(partialFilters)
  /\ UNCHANGED nonStoreVars

\* the price window reset to the hardcoded default
resetFilters_defaultRange ==
  LET reset == DEFAULT_FILTERS
      filtered == applyFiltersAndSort(allFlights, reset)
  IN /\ filters' = reset
     /\ filteredFlights' = filtered
     /\ chartData' = generatePriceChartData(filtered)
     /\ lastViewOp' = "resetFilters"
     /\ UNCHANGED <<allFlights, isLoading, error, availableAirlines,
                    absolutePriceRange, engineState>>
     /\ UNCHANGED nonStoreVars

resetFilters ==
  LET reset == [DEFAULT_FILTERS EXCEPT !.priceRange = absolutePriceRange]
      filtered == applyFiltersAndSort(allFlights, reset)
  IN /\ filters' = reset
     /\ filteredFlights' = filtered
     /\ chartData' = generatePriceChartData(filtered)
     /\ lastViewOp' = "resetFilters"
     /\ UNCHANGED <<allFlights, isLoading, error, availableAirlines,
                    absolutePriceRange, engineState>>
     /\ UNCHANGED nonStoreVars

\* the working set left in place
clearSearch_keepsFlights ==
  /\ filteredFlights' = <<>>
  /\ chartData' = <<>>
  /\ availableAirlines' = <<>>
  /\ absolutePriceRange' = [min |-> Units(0), max |-> Units(10000)]
  /\ filters' = DEFAULT_FILTERS
  /\ isLoading' = FALSE
  /\ error' = Null
  /\ engineState' = "Empty"
  /\ lastViewOp' = "clearSearch"
  /\ UNCHANGED allFlights
  /\ UNCHANGED nonStoreVars

\* the bounds of the cleared working set left in place
clearSearch_keepsBounds ==
  /\ allFlights' = <<>>
  /\ filteredFlights' = <<>>
  /\ chartData' = <<>>
  /\ availableAirlines' = <<>>
  /\ filters' = DEFAULT_FILTERS
  /\ isLoading' = FALSE
  /\ error' = Null
  /\ engineState' = "Empty"
  /\ lastViewOp' = "clearSearch"
  /\ UNCHANGED absolutePriceRange
  /\ UNCHANGED nonStoreVars

clearSearch ==
  /\ allFlights' = <<>>
  /\ filteredFlights' = <<>>
  /\ chartData' = <<>>
  /\ availableAirlines' = <<>>
  /\ absolutePriceRange' = [min |-> Units(0), max |-> Units(10000)]
  /\ filters' = DEFAULT_FILTERS
  /\ isLoading' = FALSE
  /\ error' = Null
  /\ engineState' = "Empty"
  /\ lastViewOp' = "clearSearch"
  /\ UNCHANGED nonStoreVars

Next ==
  \/ \E flights \in FlightLists : setFlights(flights)
  \/ \E loading \in BOOLEAN : setLoading(loading)
  \/ \E e \in ErrorValues : setError(e)
  \/ \E partialFilters \in PartialFilters : updateFilters(partialFilters)
  \/ resetFilters
  \/ clearSearch

Spec == Init /\ [][Next]_vars

(***************************************************************************)
(* The filter panel calling the store: a change handler builds a           *)
(* Partial<FlightFilters> and hands it to updateFilters.  The handler's    *)
(* argument stays in call, so that the filters after the call can be       *)
(* compared with what the caller asked for.                                *)
(***************************************************************************)
\* the search results the panel is shown with
PanelFlightLists ==
  { <<>>,
    << Flight("1", "Delta", "08:00", "11:30", "3h 30m", 0, Units(100)),
       Flight("2", "United", "06:15", "12:00", "5h 45m", 1, Units(250)),
       Flight("3", "Delta", "09:30", "21:30", "12h", 2, Units(900)) >> }

handleFilterChange(partialFilters) ==
  /\ call' = [op |-> "updateFilters", partialFilters |-> partialFilters]
  /\ UNCHANGED ret
  /\ UNCHANGED storeVars
  /\ UNCHANGED <<pageVars, clientVars>>

callUpdateFilters ==
  /\ call.op = "updateFilters"
  /\ updateFilters(call.partialFilters)

PanelNext ==
  \/ \E flights \in PanelFlightLists : setFlights(flights)
  \/ \E partialFilters \in PartialFilters : handleFilterChange(partialFilters)
  \/ callUpdateFilters
  \/ resetFilters

PanelSpec == Init /\ [][PanelNext]_vars

(***************************************************************************)
(* sortFlights called on its own.  call.flights is the caller's array: the *)
(* caller passes it, sortFlights runs and returns, and the caller may pass *)
(* the returned list again with the same key.                              *)
(***************************************************************************)
\* a fifth flight with the price of flight 2, the departure time of flight 1,
\* the arrival time of flight 2 and, like flight 4, a minutes-only duration
SortCatalogue ==
  Catalogue \cup { Flight("5", "Alaska", "08:00", "12:00", "30m", 1, Units(250)) }

RECURSIVE SortInputsUpTo(_)
SortInputsUpTo(n) ==
  IF n = 0 THEN {<<>>}
  ELSE LET shorter == SortInputsUpTo(n - 1) IN
       shorter \cup
       { Append(l, f) : l \in {x \in shorter : Len(x) = n - 1},
                        f \in SortCatalogue }

SortInputs == {l \in SortInputsUpTo(MaxFlights) : HasDistinctIds(l)}

passFlights(flights, sortBy) ==
  /\ call' = [op |-> "sortFlights", flights |-> flights, sortBy |-> sortBy,
              returned |-> FALSE, resorted |-> FALSE]
  /\ ret' = NoReturn
  /\ UNCHANGED storeVars
  /\ UNCHANGED <<pageVars, clientVars>>

\* sortFlights sorting its argument in place, without the copy
runSortFlights_inPlace ==
  /\ call.op = "sortFlights"
  /\ ~call.returned
  /\ ret' = sortFlights(call.flights, call.sortBy)
  /\ call' = [call EXCEPT !.returned = TRUE,
                          !.flights = sortFlights(call.flights, call.sortBy)]
  /\ UNCHANGED storeVars
  /\ UNCHANGED <<pageVars, clientVars>>

\* sorted = [...flights] is sorted and returned; the argument is not written
runSortFlights ==
  /\ call.op = "sortFlights"
  /\ ~call.returned
  /\ ret' = sortFlights(call.flights, call.sortBy)
  /\ call' = [call EXCEPT !.returned = TRUE]
  /\ UNCHANGED storeVars
  /\ UNCHANGED <<pageVars, clientVars>>

resortFlights ==
  /\ call.op = "sortFlights"
  /\ call.returned
  /\ call' = [call EXCEPT !.flights = ret, !.returned = FALSE, !.resorted = TRUE]
  /\ ret' = NoReturn
  /\ UNCHANGED storeVars
  /\ UNCHANGED <<pageVars, clientVars>>

SortNext ==
  \/ \E flights \in SortInputs, sortBy \in SortKeys : passFlights(flights, sortBy)
  \/ runSortFlights
  \/ resortFlights

SortSpec == Init /\ [][SortNext]_vars

(***************************************************************************)
(* A raw duration on its way to the sort: transformFlightOffer renders it  *)
(* with parseDuration, sortFlights reads the label back with               *)
(* parseDurationToMinutes.  call keeps the raw duration and the digits it  *)
(* was written with; ret lists the values returned so far, the label and   *)
(* then its minutes.                                                       *)
(***************************************************************************)
DurationCalls ==
  { [op |-> "parseDuration", duration |-> StrOf(IsoChars(h, m)),
     hours |-> h, minutes |-> m] : h \in HourComponents, m \in MinuteComponents }
    \cup
  { [op |-> "parseDuration", duration |-> StrOf(c),
     hours |-> <<>>, minutes |-> <<>>] : c \in MalformedDurations }

passDuration(c) ==
  /\ call' = c
  /\ ret' = NoReturn
  /\ UNCHANGED storeVars
  /\ UNCHANGED <<pageVars, clientVars>>

runParseDuration ==
  /\ call.op = "parseDuration"
  /\ ret = NoReturn
  /\ ret' = <<parseDuration(call.duration)>>
  /\ UNCHANGED call
  /\ UNCHANGED storeVars
  /\ UNCHANGED <<pageVars, clientVars>>

runParseDurationToMinutes ==
  /\ call.op = "parseDuration"
  /\ Len(ret) = 1
  /\ ret' = Append(ret, parseDurationToMinutes(ret[1]))
  /\ UNCHANGED call
  /\ UNCHANGED storeVars
  /\ UNCHANGED <<pageVars, clientVars>>

DurationNext ==
  \/ \E c \in DurationCalls : passDuration(c)
  \/ runParseDuration
  \/ runParseDurationToMinutes

DurationSpec == Init /\ [][DurationNext]_vars

(***************************************************************************)
(* transformFlightOffer and transformFlightOffers.  A timestamp ("at") is  *)
(* held as the instant parseISO gives for it, in minutes from the midnight *)
(* before the first departure.  A call either returns a value or throws.   *)
(***************************************************************************)
Undefined == "undefined"

\* the operand of || and ?: counts as true
Truthy(v) == v # Undefined /\ v # Null /\ v # ""

\* a || b
JsOr(a, b) == IF Truthy(a) THEN a ELSE b

\* obj[key] of a Record<string, string>
PropertyOf(obj, key) == IF key \in DOMAIN obj THEN obj[key] ELSE Undefined

\* a % b of JavaScript, b positive: the sign is the dividend's
JsRemainder(a, b) == IF a >= 0 THEN a % b ELSE 0 - ((0 - a) % b)

Return(v) == [kind |-> "return", value |-> v]

Throw(e) == [kind |-> "throw", error |-> e]

AIRLINE_NAMES ==
  ("AA" :> "American Airlines") @@ ("DL" :> "Delta Air Lines") @@
  ("UA" :> "United Airlines") @@ ("BA" :> "British Airways") @@
  ("LH" :> "Lufthansa") @@ ("AF" :> "Air France") @@ ("KL" :> "KLM") @@
  ("EK" :> "Emirates") @@ ("QR" :> "Qatar Airways") @@
  ("SQ" :> "Singapore Airlines") @@ ("CX" :> "Cathay Pacific") @@
  ("QF" :> "Qantas") @@ ("AC" :> "Air Canada") @@ ("NH" :> "ANA") @@
  ("JL" :> "Japan Airlines") @@ ("TK" :> "Turkish Airlines") @@
  ("EY" :> "Etihad Airways") @@ ("SV" :> "Saudi Arabian Airlines") @@
  ("WN" :> "Southwest Airlines") @@ ("B6" :> "JetBlue") @@
  ("AS" :> "Alaska Airlines") @@ ("F9" :> "Frontier Airlines") @@
  ("NK" :> "Spirit Airlines")

AIRLINE_LOGO_URL(carrierCode) ==
  "https://images.kiwi.com/airlines/64/" \o carrierCode \o ".png"

calculateStops(segments) ==
  IF Len(segments) - 1 > 0 THEN Len(segments) - 1 ELSE 0

\* the static table asked before the dictionary
getAirlineName_staticFirst(carrierCode, dictionaries) ==
  LET fromDictionary ==
        IF dictionaries = {} THEN Undefined
        ELSE PropertyOf(CHOOSE d \in dictionaries : TRUE, carrierCode)
  IN JsOr(PropertyOf(AIRLINE_NAMES, carrierCode), JsOr(fromDictionary, carrierCode))

\* dictionaries?.[carrierCode] || AIRLINE_NAMES[carrierCode] || carrierCode;
\* dictionaries is {} when undefined, {d} when it is the record d
getAirlineName(carrierCode, dictionaries) ==
  LET fromDictionary ==
        IF dictionaries = {} THEN Undefined
        ELSE PropertyOf(CHOOSE d \in dictionaries : TRUE, carrierCode)
  IN JsOr(fromDictionary, JsOr(PropertyOf(AIRLINE_NAMES, carrierCode), carrierCode))

\* differenceInMinutes of two instants held in minutes
differenceInMinutes(later, earlier) == later - earlier

\* the layover text of a gap
LayoverText(layoverMinutes) ==
  LET layoverHours == layoverMinutes \div 60          \* Math.floor
      layoverMins == JsRemainder(layoverMinutes, 60)
  IN IF layoverHours > 0
     THEN ToString(layoverHours) \o "h " \o ToString(layoverMins) \o "m"
     ELSE ToString(layoverMins) \o "m"

\* one entry too few: the loop stopping at segments.length - 2
getLayovers_shortLoop(segments) ==
  [i \in 1..(Len(segments) - 2) |->
     segments[i].arrival.iataCode \o " (" \o
       LayoverText(differenceInMinutes(segments[i + 1].departure.at,
                                       segments[i].arrival.at)) \o ")"]

\* the hours written also when they are zero
getLayovers_zeroHours(segments) ==
  [i \in 1..(Len(segments) - 1) |->
     LET layoverMinutes == differenceInMinutes(segments[i + 1].departure.at,
                                               segments[i].arrival.at)
     IN segments[i].arrival.iataCode \o " (" \o
          ToString(layoverMinutes \div 60) \o "h " \o
          ToString(JsRemainder(layoverMinutes, 60)) \o "m" \o ")"]

getLayovers(segments) ==
  [i \in 1..(Len(segments) - 1) |->
     segments[i].arrival.iataCode \o " (" \o
       LayoverText(differenceInMinutes(segments[i + 1].departure.at,
                                       segments[i].arrival.at)) \o ")"]

Pad2(n) == IF n < 10 THEN "0" \o ToString(n) ELSE ToString(n)

\* format(date, "HH:mm")
FormatHHmm(at) == Pad2((at \div 60) % 24) \o ":" \o Pad2(at % 60)

\* parseFloat of a decimal string with at most two decimals, in price units
parseFloat(str) ==
  LET d == Chars(str)
      e == DigitRunEnd(d, 1)
      whole == ParseInt(SubSeq(d, 1, e - 1))
      f == IF e < Len(d) /\ d[e] = "." THEN SubSeq(d, e + 1, DigitRunEnd(d, e + 1) - 1)
           ELSE <<>>
      fraction == IF Len(f) = 0 THEN 0
                  ELSE IF Len(f) = 1 THEN ParseInt(f) * 10
                  ELSE ParseInt(SubSeq(f, 1, 2))
  IN whole * PriceScale + fraction

\* reading a property of undefined throws a TypeError: offer.itineraries[0]
\* is undefined when there is no itinerary (itinerary.segments throws), and
\* itinerary.segments[0] is undefined when there is no segment
\* (firstSegment.carrierCode or firstSegment.departure throws)
transformFlightOffer(offer, carrierDictionary) ==
  IF offer.itineraries = <<>> THEN Throw("TypeError")
  ELSE IF offer.itineraries[1].segments = <<>> THEN Throw("TypeError")
  ELSE
    LET itinerary == offer.itineraries[1]
        firstSegment == itinerary.segments[1]
        lastSegment == itinerary.segments[Len(itinerary.segments)]
        primaryCarrier ==
          JsOr(IF offer.validatingAirlineCodes = <<>> THEN Undefined
               ELSE offer.validatingAirlineCodes[1],
               firstSegment.carrierCode)
    IN Return(
         [id |-> offer.id,
          airline |-> getAirlineName(primaryCarrier, carrierDictionary),
          airlineLogo |-> AIRLINE_LOGO_URL(primaryCarrier),
          departureTime |-> FormatHHmm(firstSegment.departure.at),
          arrivalTime |-> FormatHHmm(lastSegment.arrival.at),
          departureAirport |-> firstSegment.departure.iataCode,
          arrivalAirport |-> lastSegment.arrival.iataCode,
          duration |-> parseDuration(itinerary.duration),
          stops |-> calculateStops(itinerary.segments),
          price |-> parseFloat(offer.price.grandTotal),
          currency |-> offer.price.currency,
          segments |->
            [i \in 1..Len(itinerary.segments) |->
               [id |-> itinerary.segments[i].id,
                departure |-> itinerary.segments[i].departure,
                arrival |-> itinerary.segments[i].arrival,
                carrierCode |-> itinerary.segments[i].carrierCode,
                carrierName |-> getAirlineName(itinerary.segments[i].carrierCode,
                                               carrierDictionary)]],
          layovers |-> getLayovers(itinerary.segments)])

\* Array.prototype.map with a callback that may throw: the first throw ends it
RECURSIVE MapTransform(_, _)
MapTransform(data, carrierDictionary) ==
  IF data = <<>> THEN Return(<<>>)
  ELSE LET first == transformFlightOffer(data[1], carrierDictionary) IN
       IF first.kind = "throw" THEN first
       ELSE LET rest == MapTransform(Tail(data), carrierDictionary) IN
            IF rest.kind = "throw" THEN rest
            ELSE Return(<<first.value>> \o rest.value)

\* response.dictionaries?.carriers
transformFlightOffers(response) ==
  LET carrierDictionary ==
        IF response.dictionaries = {} THEN {}
        ELSE (CHOOSE d \in response.dictionaries : TRUE).carriers
  IN MapTransform(response.data, carrierDictionary)

(***************************************************************************)
(* The offers handed to the transformation, and its calls: one call is     *)
(* made and observed in a behaviour.                                       *)
(***************************************************************************)
Airports == <<"JFK", "ORD", "DEN", "LAX", "SFO", "SEA">>

CarrierCycle == <<"AA", "DL", "ZZ">>

\* minutes between an arrival and the next departure; 0 and -30 are the
\* gaps of a malformed schedule
Gaps == {90, 45, 0, 0 - 30}

RECURSIVE GapSeqsUpTo(_)
GapSeqsUpTo(n) ==
  IF n = 0 THEN {<<>>}
  ELSE LET shorter == GapSeqsUpTo(n - 1) IN
       shorter \cup
       { Append(x, g) : x \in {y \in shorter : Len(y) = n - 1}, g \in Gaps }

\* the first departure is at 08:00 and every segment flies for an hour
RECURSIVE DepartureAt(_, _)
DepartureAt(gaps, i) ==
  IF i = 1 THEN 8 * 60 ELSE DepartureAt(gaps, i - 1) + 60 + gaps[i - 1]

\* Len(gaps) + 1 segments; the carriers go round CarrierCycle from shift
SegmentsOf(gaps, shift) ==
  [i \in 1..(Len(gaps) + 1) |->
     [id |-> ToString(i),
      departure |-> [iataCode |-> Airports[i], at |-> DepartureAt(gaps, i)],
      arrival |-> [iataCode |-> Airports[i + 1], at |-> DepartureAt(gaps, i) + 60],
      carrierCode |-> CarrierCycle[((i - 1 + shift) % 3) + 1]]]

Offer(id, itineraries, validatingAirlineCodes) ==
  [id |-> id, itineraries |-> itineraries,
   validatingAirlineCodes |-> validatingAirlineCodes,
   price |-> [grandTotal |-> "99.50", currency |-> "USD"]]

Outbound(segments) == [segments |-> segments, duration |-> "PT2H30M"]

ReturnItinerary == [segments |-> SegmentsOf(<<45>>, 2), duration |-> "PT2H"]

ValidatingChoices == { <<>>, <<"DL">> }

WellFormedOffers ==
  { Offer("1", <<Outbound(SegmentsOf(gaps, shift))>> \o rest, codes) :
      gaps \in GapSeqsUpTo(MaxSegments - 1), shift \in 0..2,
      rest \in { <<>>, <<ReturnItinerary>> }, codes \in ValidatingChoices }

\* no itinerary, and a first itinerary without segments
MalformedOffers ==
  { Offer("1", itineraries, codes) :
      itineraries \in { <<>>, <<Outbound(<<>>)>> }, codes \in ValidatingChoices }

\* {} for no dictionary; otherwise the dictionary: empty, overriding the
\* static name of AA, holding an empty name for AA, naming the unlisted ZZ
CarrierDictionaries ==
  { {},
    { [code \in {} |-> ""] },
    { [code \in {"AA"} |-> "American Air"] },
    { [code \in {"AA"} |-> ""] },
    { [code \in {"ZZ", "DL"} |-> IF code = "ZZ" THEN "Zed Air" ELSE "Delta"] } }

BatchCatalogue ==
  { Offer("1", <<Outbound(SegmentsOf(<<>>, 0))>>, <<>>),
    Offer("2", <<Outbound(SegmentsOf(<<90>>, 1))>>, <<"DL">>),
    Offer("3", <<>>, <<"DL">>),
    Offer("4", <<Outbound(<<>>)>>, <<>>) }

RECURSIVE BatchesUpTo(_)
BatchesUpTo(n) ==
  IF n = 0 THEN {<<>>}
  ELSE LET shorter == BatchesUpTo(n - 1) IN
       shorter \cup
       { Append(x, o) : x \in {y \in shorter : Len(y) = n - 1}, o \in BatchCatalogue }

\* AmadeusFlightOffersResponse: dictionaries is {} when the response has none
Responses ==
  { [data |-> data, dictionaries |-> dictionaries] :
      data \in BatchesUpTo(MaxBatch),
      dictionaries \in { {},
                         { [carriers |-> {}] },
                         { [carriers |-> { [code \in {"AA"} |-> "American Air"] }] } } }

passOffer(offer, carrierDictionary) ==
  /\ call = NoCall
  /\ call' = [op |-> "transformFlightOffer", offer |-> offer,
              carrierDictionary |-> carrierDictionary]
  /\ ret' = NoReturn
  /\ UNCHANGED storeVars
  /\ UNCHANGED <<pageVars, clientVars>>

runTransformFlightOffer ==
  /\ call.op = "transformFlightOffer"
  /\ ret = NoReturn
  /\ ret' = <<transformFlightOffer(call.offer, call.carrierDictionary)>>
  /\ UNCHANGED call
  /\ UNCHANGED storeVars
  /\ UNCHANGED <<pageVars, clientVars>>

passResponse(response) ==
  /\ call = NoCall
  /\ call' = [op |-> "transformFlightOffers", response |-> response]
  /\ ret' = NoReturn
  /\ UNCHANGED storeVars
  /\ UNCHANGED <<pageVars, clientVars>>

runTransformFlightOffers ==
  /\ call.op = "transformFlightOffers"
  /\ ret = NoReturn
  /\ ret' = <<transformFlightOffers(call.response)>>
  /\ UNCHANGED call
  /\ UNCHANGED storeVars
  /\ UNCHANGED <<pageVars, clientVars>>

TransformNext ==
  \/ \E offer \in WellFormedOffers \cup MalformedOffers,
        carrierDictionary \in CarrierDictionaries :
       passOffer(offer, carrierDictionary)
  \/ runTransformFlightOffer
  \/ \E response \in Responses : passResponse(response)
  \/ runTransformFlightOffers

TransformSpec == Init /\ [][TransformNext]_vars

(***************************************************************************)
(* The search page.  Its effect runs fetchFlights whenever the search      *)
(* parameters change and nothing cancels a run that is still waiting:      *)
(* every run goes on to its own continuation when its response arrives.    *)
(* fetches lists the runs in the order they were started; a run is at      *)
(* "setError" between its setLoading(true) and its setError(null), at      *)
(* "await" while the request is out, and "done" afterwards.  JavaScript    *)
(* runs a handler to its next await before anything else is scheduled, so  *)
(* nothing is interleaved with a run at "setError".                        *)
(***************************************************************************)
SearchParams ==
  { [origin |-> "JFK", destination |-> "LAX"],
    [origin |-> "JFK", destination |-> "SFO"],
    [origin |-> "JFK", destination |-> ""] }

\* what the flight search finds for a destination
ResultsOf(params) ==
  IF params.destination = "LAX"
    THEN << Flight("1", "Delta", "08:00", "11:30", "3h 30m", 0, Units(100)),
            Flight("2", "United", "06:15", "12:00", "5h 45m", 1, Units(250)) >>
    ELSE << Flight("3", "Delta", "09:30", "21:30", "12h", 2, Units(900)) >>

\* the responses of /api/flights: the flights, an error with a message, an
\* error without one, and a body that is neither
ResponsesTo(params) ==
  { [ok |-> TRUE, success |-> TRUE, data |-> {ResultsOf(params)},
     error |-> Undefined],
    [ok |-> FALSE, success |-> FALSE, data |-> {},
     error |-> "Origin and destination must be different"],
    [ok |-> FALSE, success |-> FALSE, data |-> {}, error |-> Undefined],
    [ok |-> TRUE, success |-> FALSE, data |-> {}, error |-> Undefined] }

Running == {i \in 1..Len(fetches) : fetches[i].pc = "setError"}

Awaiting == {i \in 1..Len(fetches) : fetches[i].pc = "await"}

\* the effect: setLoading(true), the first statement of fetchFlights
startFetch(params) ==
  /\ Len(fetches) < MaxFetches
  /\ Running = {}
  /\ Truthy(params.origin) /\ Truthy(params.destination)
  /\ StoreSetLoading(TRUE)
  /\ fetches' = Append(fetches, [params |-> params, pc |-> "setError",
                                 inFlightAtStart |-> Awaiting,
                                 response |-> {}])
  /\ UNCHANGED <<call, ret, localPriceRange, clientVars>>

\* setError(null), then the request is sent and the run waits
sendRequest(i) ==
  /\ fetches[i].pc = "setError"
  /\ StoreSetError(Null)
  /\ fetches' = [fetches EXCEPT ![i].pc = "await"]
  /\ UNCHANGED <<call, ret, localPriceRange, clientVars>>

\* the response is in: the flights go to setFlights
receiveFlights(i, response) ==
  /\ fetches[i].pc = "await"
  /\ Running = {}
  /\ response.ok /\ response.success /\ response.data # {}
  /\ StoreSetFlights(CHOOSE data \in response.data : TRUE)
  /\ fetches' = [fetches EXCEPT ![i].pc = "done", ![i].response = {response}]
  /\ UNCHANGED <<call, ret, localPriceRange, clientVars>>

\* the response is in and a throw takes the run to its catch block
receiveFailure(i, response) ==
  /\ fetches[i].pc = "await"
  /\ Running = {}
  /\ ~(response.ok /\ response.success /\ response.data # {})
  /\ StoreSetError(IF ~response.ok
                     THEN JsOr(response.error, "Failed to fetch flights")
                     ELSE "Invalid response format")
  /\ fetches' = [fetches EXCEPT ![i].pc = "done", ![i].response = {response}]
  /\ UNCHANGED <<call, ret, localPriceRange, clientVars>>

FetchNext ==
  \/ \E params \in SearchParams : startFetch(params)
  \/ \E i \in Running : sendRequest(i)
  \/ \E i \in Awaiting : \E response \in ResponsesTo(fetches[i].params) :
       receiveFlights(i, response)
  \/ \E i \in Awaiting : \E response \in ResponsesTo(fetches[i].params) :
       receiveFailure(i, response)

FetchSpec == Init /\ [][FetchNext]_vars

(***************************************************************************)
(* The price sliders of the filter panel.  The panel is mounted with the   *)
(* page and keeps its own copy of the price window, localPriceRange, which *)
(* useState initialises from the store's filters at mount and which only   *)
(* handlePriceChange writes.  The "Reset All" button is wired to the       *)
(* store's resetFilters itself, and the page's fetch calls setFlights.     *)
(* call keeps the arguments of the last handlePriceChange and the window   *)
(* it sent to updateFilters.                                               *)
(***************************************************************************)
\* positions of a slider
SliderValues == {Units(150), Units(300), Units(900)}

\* the window alone, as a Partial<FlightFilters>
PriceRangeOnly(range) ==
  [priceRange |-> {range}, stops |-> {}, airlines |-> {}, sortBy |-> {}]

\* a slider is moved; it runs from absolutePriceRange.min to .max
handlePriceChange(type, value) ==
  LET newRange == [localPriceRange EXCEPT ![type] = value] IN
  /\ absolutePriceRange.min <= value /\ value <= absolutePriceRange.max
  /\ localPriceRange' = newRange
  /\ StoreUpdateFilters(PriceRangeOnly(newRange))
  /\ call' = [op |-> "handlePriceChange", type |-> type, value |-> value,
              priceRange |-> newRange]
  /\ UNCHANGED <<ret, fetches, clientVars>>

SliderNext ==
  \/ \E flights \in PanelFlightLists : setFlights(flights)
  \/ resetFilters
  \/ \E type \in {"min", "max"}, value \in SliderValues :
       handlePriceChange(type, value)

SliderSpec == Init /\ [][SliderNext]_vars

(***************************************************************************)
(* The price chart.  PriceTrendChart reads chartData from the store,       *)
(* groups the points by time with a reduce and sorts the groups by time.   *)
(* An entry of the accumulator is a copy of the point that opened the      *)
(* group ({ ...point }), so the writes to existing.price and               *)
(* existing.flightId land in the copy and the store's array is only read.  *)
(* call keeps the array the component read, ret the grouped points.        *)
(***************************************************************************)
\* the lowest index of acc whose time is the point's: acc.find(...)
FindByTime(acc, point) ==
  {i \in 1..Len(acc) : acc[i].time = point.time /\
                       \A j \in 1..(i - 1) : acc[j].time # point.time}

\* one call of the reducer
GroupPoint(acc, point) ==
  LET existing == FindByTime(acc, point) IN
  IF existing # {}
    THEN LET i == CHOOSE i \in existing : TRUE IN
         IF point.price < acc[i].price
           THEN [acc EXCEPT ![i].price = point.price,
                            ![i].flightId = point.flightId]
           ELSE acc
    ELSE Append(acc, point)

RECURSIVE Reduce(_, _)
Reduce(points, acc) ==
  IF points = <<>> THEN acc
  ELSE Reduce(Tail(points), GroupPoint(acc, Head(points)))

\* x goes behind the last group whose time does not compare greater
RECURSIVE InsertByTime(_, _)
InsertByTime(sorted, x) ==
  IF sorted = <<>> THEN <<x>>
  ELSE LET last == sorted[Len(sorted)] IN
       IF localeCompare(last.time, x.time) <= 0 THEN Append(sorted, x)
       ELSE Append(InsertByTime(SubSeq(sorted, 1, Len(sorted) - 1), x), last)

\* groupedData.sort((a, b) => a.time.localeCompare(b.time))
RECURSIVE SortByTime(_)
SortByTime(s) ==
  IF s = <<>> THEN <<>>
  ELSE InsertByTime(SortByTime(SubSeq(s, 1, Len(s) - 1)), s[Len(s)])

groupedData(points) == SortByTime(Reduce(points, <<>>))

\* the sort key alone, as a Partial<FlightFilters>
SortByOnly(sortBy) ==
  [priceRange |-> {}, stops |-> {}, airlines |-> {}, sortBy |-> {sortBy}]

\* the component renders: nothing when there is no point
renderPriceTrendChart ==
  /\ call = NoCall
  /\ Len(chartData) # 0
  /\ call' = [op |-> "PriceTrendChart", chartData |-> chartData]
  /\ ret' = groupedData(chartData)
  /\ UNCHANGED storeVars
  /\ UNCHANGED <<pageVars, clientVars>>

ChartNext ==
  \/ \E flights \in FlightLists : setFlights(flights)
  \/ \E sortBy \in SortKeys : updateFilters(SortByOnly(sortBy))
  \/ renderPriceTrendChart

ChartSpec == Init /\ [][ChartNext]_vars

(***************************************************************************)
(* The Amadeus client and its token cache.  cachedToken and                *)
(* tokenExpiryTime belong to the module, so every call of searchFlights,   *)
(* of whichever request of the API route, reads and writes the same cache. *)
(* clientCalls is the bag of the calls of searchFlights that have not yet   *)
(* completed: a call is at "post" while its authentication request is out  *)
(* and at "get" while its flight-offers request is out.  A call keeps the  *)
(* const now that getAccessToken read when it was entered.  ret is what    *)
(* the call completed last returned or threw.  Times are in milliseconds.  *)
(***************************************************************************)
TOKEN_EXPIRY_BUFFER == 60

\* the time between two readings of the clock: half the time for which a
\* token of 1799 seconds is served from the cache
TickMs == 869500

AccessTokens == {"tokenA", "tokenB"}

\* expires_in of the authentication response, in seconds
ExpiresIn == {1799, 60}

\* HTTP statuses of the flight-offers response
Statuses == {200, 400, 401, 429}

\* the cache is served also at the instant of expiry
CacheValid_untilExpiry ==
  /\ Truthy(cachedToken)
  /\ \E t \in tokenExpiryTime : t # 0 /\ now <= t

\* cachedToken && tokenExpiryTime && now < tokenExpiryTime
CacheValid ==
  /\ Truthy(cachedToken)
  /\ \E t \in tokenExpiryTime : t # 0 /\ now < t

\* now + (response.data.expires_in - API_CONFIG.TOKEN_EXPIRY_BUFFER) * 1000
ExpiryOf(requestTime, expires_in) ==
  requestTime + (expires_in - TOKEN_EXPIRY_BUFFER) * 1000

\* the message searchFlights throws for a response with an error status
StatusError(status) ==
  CASE status = 401 -> "Authentication expired. Please try again."
    [] status = 400 -> "Invalid search parameters. Please check your inputs."
    [] status = 429 -> "Rate limit exceeded. Please wait a moment and try again."
    [] OTHER -> "Failed to fetch flights."

\* Date.now() has moved on
tick ==
  /\ now < StartTime + MaxTicks * TickMs
  /\ now' = now + TickMs
  /\ UNCHANGED <<cachedToken, tokenExpiryTime, clientCalls>>
  /\ UNCHANGED <<storeVars, call, ret, pageVars>>

\* the calls with one more, one less
Entered(c) == clientCalls (+) SetToBag({c})

Left(c) == clientCalls (-) SetToBag({c})

\* the outcome of a call: the status of the flight-offers response (0 when
\* there was none) and the message of the Error thrown (Null when the data
\* was returned)
Outcome(status, message) == <<[status |-> status, error |-> message]>>

\* searchFlights is called and runs getAccessToken up to its first await:
\* with a valid cache the token is returned and the flight-offers request
\* goes out, otherwise the authentication request does
callSearchFlights ==
  /\ BagCardinality(clientCalls) < MaxCalls
  /\ clientCalls' =
       Entered(IF CacheValid
                 THEN [pc |-> "get", now |-> now, cached |-> TRUE,
                       token |-> cachedToken, expires_in |-> 0]
                 ELSE [pc |-> "post", now |-> now, cached |-> FALSE,
                       token |-> Null, expires_in |-> 0])
  /\ UNCHANGED <<cachedToken, tokenExpiryTime, now>>
  /\ UNCHANGED <<storeVars, call, ret, pageVars>>

\* the authentication response is in: the cache is written, the token
\* returned and the flight-offers request goes out
authSucceeds(c, access_token, expires_in) ==
  /\ c.pc = "post"
  /\ cachedToken' = access_token
  /\ tokenExpiryTime' = {ExpiryOf(c.now, expires_in)}
  /\ clientCalls' =
       Left(c) (+) SetToBag({[c EXCEPT !.pc = "get", !.token = access_token,
                                       !.expires_in = expires_in]})
  /\ UNCHANGED now
  /\ UNCHANGED <<storeVars, call, ret, pageVars>>

\* the authentication request fails: getAccessToken throws a plain Error,
\* which searchFlights rethrows as a network error
authFails(c) ==
  /\ c.pc = "post"
  /\ clientCalls' = Left(c)
  /\ ret' = Outcome(0, "Network error. Please check your connection.")
  /\ UNCHANGED <<cachedToken, tokenExpiryTime, now>>
  /\ UNCHANGED <<storeVars, call, pageVars>>

\* the flight-offers response is in: the data is returned, or the status
\* decides the Error thrown; a 401 clears the cache first
receiveStatus(c, status) ==
  /\ c.pc = "get"
  /\ clientCalls' = Left(c)
  /\ ret' = Outcome(status, IF status = 200 THEN Null ELSE StatusError(status))
  /\ IF status = 401
       THEN cachedToken' = Null /\ tokenExpiryTime' = {}
       ELSE UNCHANGED <<cachedToken, tokenExpiryTime>>
  /\ UNCHANGED now
  /\ UNCHANGED <<storeVars, call, pageVars>>

ClientNext ==
  \/ tick
  \/ callSearchFlights
  \/ \E c \in BagToSet(clientCalls), access_token \in AccessTokens,
        expires_in \in ExpiresIn : authSucceeds(c, access_token, expires_in)
  \/ \E c \in BagToSet(clientCalls) : authFails(c)
  \/ \E c \in BagToSet(clientCalls), status \in Statuses : receiveStatus(c, status)

ClientSpec == Init /\ [][ClientNext]_vars

(***************************************************************************)
(* Helpers of the properties.                                              *)
(***************************************************************************)
Range(s) == {s[i] : i \in 1..Len(s)}

Count(s, x) == Cardinality({i \in 1..Len(s) : s[i] = x})

SameMultiset(s, t) ==
  /\ Len(s) = Len(t)
  /\ \A x \in Range(s) \cup Range(t) : Count(s, x) = Count(t, x)

WholeUnits(p) == p % PriceScale = 0

InPriceWindow(flight) ==
  filters.priceRange.min <= flight.price /\ flight.price <= filters.priceRange.max

InStopBuckets(flight) ==
  \/ filters.stops = <<>>
  \/ \E b \in Range(filters.stops) :
       \/ b = 2 /\ flight.stops >= 2
       \/ b # 2 /\ flight.stops = b

InAirlines(flight) ==
  filters.airlines = <<>> \/ flight.airline \in Range(filters.airlines)

(***************************************************************************)
(* C1: in every reachable state filteredFlights is the working set         *)
(* filtered by the current filters and sorted by the current sort key.     *)
(***************************************************************************)
C1_ViewIsFilteredSorted ==
  filteredFlights = sortFlights(filterFlights(allFlights, filters), filters.sortBy)

C1_Witness ==
  /\ lastViewOp = "updateFilters"
  /\ isLoading
  /\ filters.sortBy = "departure"
  /\ filters.stops # <<>>
  /\ Len(allFlights) = 3
  /\ Len(filteredFlights) = 2
  /\ filteredFlights # filterFlights(allFlights, filters)

(***************************************************************************)
(* C2: a step of updateFilters leaves allFlights, absolutePriceRange and   *)
(* availableAirlines as they were.                                         *)
(***************************************************************************)
C2_UpdateFiltersFrame ==
  [][lastViewOp' = "updateFilters" =>
       UNCHANGED <<allFlights, absolutePriceRange, availableAirlines>>]_vars

C2_Witness ==
  /\ lastViewOp = "updateFilters"
  /\ Len(allFlights) = 3
  /\ Len(filteredFlights) = 1
  /\ Len(availableAirlines) = 3
  /\ filters.priceRange # absolutePriceRange

(***************************************************************************)
(* C3: after setFlights the bounds are the floor of the lowest and the     *)
(* ceiling of the highest price of the new working set, and {0, 1000} with *)
(* an empty view and airline list when the working set is empty.           *)
(***************************************************************************)
C3_BoundsAfterSetFlights ==
  lastViewOp = "setFlights" =>
    IF allFlights = <<>>
    THEN /\ absolutePriceRange = [min |-> Units(0), max |-> Units(1000)]
         /\ filteredFlights = <<>>
         /\ availableAirlines = <<>>
    ELSE LET prices == {allFlights[i].price : i \in 1..Len(allFlights)}
             lo == absolutePriceRange.min
             hi == absolutePriceRange.max
         IN /\ WholeUnits(lo) /\ WholeUnits(hi)
            /\ \A p \in prices : lo <= p /\ p <= hi
            /\ \E p \in prices : p < lo + PriceScale
            /\ \E p \in prices : hi - PriceScale < p

C3_Witness ==
  /\ lastViewOp = "setFlights"
  /\ Len(allFlights) = 1
  /\ ~WholeUnits(allFlights[1].price)
  /\ absolutePriceRange.min < allFlights[1].price
  /\ allFlights[1].price < absolutePriceRange.max

(***************************************************************************)
(* C4: after setFlights the filters are the defaults with the price window *)
(* set to the new bounds, whatever they were before.                       *)
(***************************************************************************)
C4_FiltersAfterSetFlights ==
  lastViewOp = "setFlights" =>
    /\ filters.priceRange = absolutePriceRange
    /\ filters.stops = <<>>
    /\ filters.airlines = <<>>
    /\ filters.sortBy = "price"

C4_Witness ==
  /\ lastViewOp = "setFlights"
  /\ Len(allFlights) = 2
  /\ filters.priceRange = absolutePriceRange
  /\ filters.priceRange # DEFAULT_FILTERS.priceRange
  /\ filters.priceRange \notin PriceRangeChoices
  /\ filters.stops = <<>>

(***************************************************************************)
(* C5: a step of resetFilters sets the filters to the defaults with the    *)
(* price window set to the current bounds, and leaves allFlights,          *)
(* absolutePriceRange and availableAirlines as they were.                  *)
(***************************************************************************)
C5_ResetFilters ==
  [][lastViewOp' = "resetFilters" =>
       /\ filters'.stops = <<>>
       /\ filters'.airlines = <<>>
       /\ filters'.sortBy = "price"
       /\ filters'.priceRange = absolutePriceRange
       /\ UNCHANGED <<allFlights, absolutePriceRange, availableAirlines>>]_vars

C5_Witness ==
  /\ lastViewOp = "resetFilters"
  /\ engineState = "Populated"
  /\ Len(allFlights) = 3
  /\ filters.priceRange = absolutePriceRange
  /\ absolutePriceRange # DEFAULT_FILTERS.priceRange
  /\ filters.stops = <<>>

(***************************************************************************)
(* C6: right after setFlights or resetFilters the view holds every flight  *)
(* of the working set.                                                     *)
(***************************************************************************)
C6_FullViewAfterReset ==
  lastViewOp \in {"setFlights", "resetFilters"} =>
    SameMultiset(filteredFlights, allFlights)

C6_Witness ==
  /\ lastViewOp = "resetFilters"
  /\ Len(filteredFlights) = 3
  /\ \E i \in 1..3 : ~WholeUnits(filteredFlights[i].price)
  /\ filteredFlights # allFlights

(***************************************************************************)
(* C7: the view holds only flights whose price lies in the inclusive price *)
(* window, and all of them when no stops and no airlines are selected; for *)
(* prices {100, 250, 900} and the window [200, 1000] the view is the 250   *)
(* flight followed by the 900 flight.                                      *)
(***************************************************************************)
C7_PriceWindowInclusive ==
  /\ \A flight \in Range(filteredFlights) : InPriceWindow(flight)
  /\ (filters.stops = <<>> /\ filters.airlines = <<>>) =>
       \A flight \in Range(allFlights) :
         InPriceWindow(flight) => flight \in Range(filteredFlights)
  /\ ( /\ Len(allFlights) = 3
       /\ {allFlights[i].price : i \in 1..3} = {Units(100), Units(250), Units(900)}
       /\ filters = [DEFAULT_FILTERS EXCEPT
                       !.priceRange = [min |-> Units(200), max |-> Units(1000)]] )
     => /\ Len(filteredFlights) = 2
        /\ filteredFlights[1].price = Units(250)
        /\ filteredFlights[2].price = Units(900)

C7_Witness ==
  /\ lastViewOp = "updateFilters"
  /\ Len(allFlights) = 3
  /\ {allFlights[i].price : i \in 1..3} = {Units(100), Units(250), Units(900)}
  /\ allFlights[1].price = Units(900)
  /\ filters = [DEFAULT_FILTERS EXCEPT
                  !.priceRange = [min |-> Units(200), max |-> Units(1000)]]
  /\ Len(filteredFlights) = 2

(***************************************************************************)
(* C8: with no stop bucket selected the stops predicate passes every       *)
(* flight; otherwise a flight passes iff a selected bucket matches it,     *)
(* bucket 2 matching two or more stops and any other bucket b exactly b.   *)
(***************************************************************************)
C8_StopBuckets ==
  /\ \A flight \in Range(filteredFlights) : InStopBuckets(flight)
  /\ filters.airlines = <<>> =>
       \A flight \in Range(allFlights) :
         (InPriceWindow(flight) /\ InStopBuckets(flight))
           => flight \in Range(filteredFlights)
  /\ filters.stops = <<2>> =>
       \A flight \in Range(filteredFlights) : flight.stops \notin {0, 1}

C8_Witness ==
  /\ filters.stops = <<2>>
  /\ filters.airlines = <<>>
  /\ \E flight \in Range(allFlights) : flight.stops = 0 /\ InPriceWindow(flight)
  /\ \E flight \in Range(filteredFlights) : flight.stops = 3
  /\ \E flight \in Range(filteredFlights) : flight.stops = 2

C11_EmptyStaysEmpty ==
  [][/\ engineState' = "Empty" => allFlights' = <<>>
     /\ (allFlights = <<>> /\ lastViewOp' \in {"updateFilters", "resetFilters"})
          => (allFlights' = <<>> /\ filteredFlights' = <<>> /\ chartData' = <<>>)
     /\ (allFlights = <<>> /\ allFlights' # <<>>) => lastViewOp' = "setFlights"
     /\ (engineState = "Empty" /\ engineState' # "Empty")
          => lastViewOp' = "setFlights"]_vars

C11_Witness ==
  /\ engineState = "Empty"
  /\ lastViewOp = "updateFilters"
  /\ filters.stops # <<>>
  /\ filters.priceRange \in PriceRangeChoices
  /\ allFlights = <<>>
  /\ filteredFlights = <<>>
  /\ chartData = <<>>

(***************************************************************************)
(* C12: chartData has one point per flight of the view, in the order of    *)
(* the view, and point i carries the fields of flight i of the view.       *)
(***************************************************************************)
C12_ChartOfView ==
  /\ Len(chartData) = Len(filteredFlights)
  /\ \A i \in 1..Len(filteredFlights) :
       /\ chartData[i].time = filteredFlights[i].departureTime
       /\ chartData[i].price = filteredFlights[i].price
       /\ chartData[i].flightId = filteredFlights[i].id
       /\ chartData[i].stops = filteredFlights[i].stops
       /\ chartData[i].airline = filteredFlights[i].airline
       /\ DOMAIN chartData[i] = {"time", "price", "flightId", "stops", "airline"}

C12_Witness ==
  /\ lastViewOp = "updateFilters"
  /\ Len(allFlights) = 3
  /\ Len(chartData) = 2
  /\ filters.sortBy = "arrival"
  /\ chartData[1].flightId # allFlights[1].id
  /\ chartData[1].flightId = filteredFlights[1].id
  /\ \E i \in 1..3 : allFlights[i].id \notin {chartData[1].flightId, chartData[2].flightId}

(***************************************************************************)
(* C13: availableAirlines is the duplicate-free, ascending list of the     *)
(* airline names of the working set, whatever the filters exclude.         *)
(***************************************************************************)
C13_AirlinesOfWorkingSet ==
  /\ Range(availableAirlines) = {allFlights[i].airline : i \in 1..Len(allFlights)}
  /\ \A i, j \in 1..Len(availableAirlines) :
       i < j => StrCompare(Chars(availableAirlines[i]), Chars(availableAirlines[j])) < 0

C13_Witness ==
  /\ Len(allFlights) = 3
  /\ Len(availableAirlines) = 2
  /\ allFlights[1].airline = "Delta"
  /\ allFlights[2].airline = "Alaska"
  /\ allFlights[3].airline = "Delta"
  /\ availableAirlines = <<"Alaska", "Delta">>
  /\ filteredFlights # <<>>
  /\ \A i \in 1..Len(filteredFlights) : filteredFlights[i].airline # "Alaska"

(***************************************************************************)
(* C14: when updateFilters narrows the price window and keeps stops,       *)
(* airlines and sortBy, the new view is a sub-multiset of the old one.     *)
(***************************************************************************)
C14_NarrowingShrinksView ==
  [][( /\ lastViewOp' = "updateFilters"
       /\ allFlights' = allFlights
       /\ filters'.stops = filters.stops
       /\ filters'.airlines = filters.airlines
       /\ filters'.sortBy = filters.sortBy
       /\ filters.priceRange.min <= filters'.priceRange.min
       /\ filters'.priceRange.max <= filters.priceRange.max )
     => /\ Len(filteredFlights') <= Len(filteredFlights)
        /\ \A flight \in Range(filteredFlights') :
             Count(filteredFlights', flight) <= Count(filteredFlights, flight)]_vars

C14_Witness ==
  /\ lastViewOp = "updateFilters"
  /\ filters.stops = <<>>
  /\ filters.airlines = <<>>
  /\ absolutePriceRange.min < filters.priceRange.min
  /\ filters.priceRange.max <= absolutePriceRange.max
  /\ Len(allFlights) = 3
  /\ Len(filteredFlights) = 1

(***************************************************************************)
(* C15: updateFilters(partial) gives every field present in partial the    *)
(* partial's value and leaves every absent field as it was.                *)
(***************************************************************************)
\* the filters after a step are the merge of partial p into the filters before
MergedFieldwise(p) ==
  /\ p.priceRange = {} => filters'.priceRange = filters.priceRange
  /\ p.priceRange # {} => filters'.priceRange \in p.priceRange
  /\ p.stops = {} => filters'.stops = filters.stops
  /\ p.stops # {} => filters'.stops \in p.stops
  /\ p.airlines = {} => filters'.airlines = filters.airlines
  /\ p.airlines # {} => filters'.airlines \in p.airlines
  /\ p.sortBy = {} => filters'.sortBy = filters.sortBy
  /\ p.sortBy # {} => filters'.sortBy \in p.sortBy

C15_FieldwiseMerge ==
  [][( /\ call.op = "updateFilters"
       /\ lastViewOp' = "updateFilters"
       /\ UNCHANGED <<call, allFlights, isLoading, error>> )
     => MergedFieldwise(call.partialFilters)]_vars

C15_Witness ==
  /\ call.op = "updateFilters"
  /\ call.partialFilters.sortBy = {"duration"}
  /\ call.partialFilters.priceRange = {}
  /\ FieldsPresent(call.partialFilters) = 1
  /\ lastViewOp = "updateFilters"
  /\ filters.sortBy = "duration"
  /\ filters.priceRange = [min |-> Units(200), max |-> Units(1000)]
  /\ filters.stops = <<1, 3>>
  /\ filters.airlines = <<"Delta", "Zed">>
  /\ allFlights # <<>>

(***************************************************************************)
(* C16: sortFlights returns a permutation of its input that is             *)
(* non-decreasing by the key: the number for price, the "HH:mm" string     *)
(* compared character by character for departure and arrival; the array    *)
(* passed in is in the same order after the call.                          *)
(***************************************************************************)
Returned == call.op = "sortFlights" /\ call.returned

NonDecreasingByPrice(s) ==
  \A i, j \in 1..Len(s) : i < j => s[i].price <= s[j].price

NonDecreasingByString(s, field) ==
  \A i, j \in 1..Len(s) :
    i < j => StrCompare(Chars(s[i][field]), Chars(s[j][field])) <= 0

C16_SortedPermutation ==
  [][((call.op = "sortFlights" /\ ~call.returned) /\ (call'.op = "sortFlights" /\ call'.returned))
     => /\ call'.flights = call.flights
        /\ SameMultiset(ret', call.flights)
        /\ call.sortBy = "price" => NonDecreasingByPrice(ret')
        /\ call.sortBy = "departure" => NonDecreasingByString(ret', "departureTime")
        /\ call.sortBy = "arrival" => NonDecreasingByString(ret', "arrivalTime")]_vars

C16_Witness ==
  /\ Returned
  /\ call.sortBy = "arrival"
  /\ Len(call.flights) = 3
  /\ call.flights[1].id = "3" /\ call.flights[2].id = "1" /\ call.flights[3].id = "4"
  /\ ret[1].id = "4" /\ ret[2].id = "1" /\ ret[3].id = "3"

(***************************************************************************)
(* C17: the sort is stable (flights whose keys are equal come out in the   *)
(* order they went in), and sorting a returned list again by the same key  *)
(* returns it unchanged.                                                   *)
(***************************************************************************)
\* the key sortFlights compares two flights by
KeyOf(flight, sortBy) ==
  CASE sortBy = "price" -> <<flight.price>>
    [] sortBy = "duration" -> <<parseDurationToMinutes(flight.duration)>>
    [] sortBy = "departure" -> Chars(flight.departureTime)
    [] sortBy = "arrival" -> Chars(flight.arrivalTime)

PositionOf(s, flight) == CHOOSE i \in 1..Len(s) : s[i] = flight

C17_StableIdempotent ==
  Returned =>
    /\ \A i, j \in 1..Len(call.flights) :
         (i < j /\ KeyOf(call.flights[i], call.sortBy) = KeyOf(call.flights[j], call.sortBy))
           => PositionOf(ret, call.flights[i]) < PositionOf(ret, call.flights[j])
    /\ call.resorted => ret = call.flights

C17_Witness ==
  /\ Returned
  /\ ~call.resorted
  /\ call.sortBy = "price"
  /\ Len(call.flights) = 3
  /\ call.flights[1].id = "3" /\ call.flights[2].id = "5" /\ call.flights[3].id = "2"
  /\ ret[1].id = "5" /\ ret[2].id = "2" /\ ret[3].id = "3"
  /\ ret[1].price = ret[2].price

(***************************************************************************)
(* C18: under sortBy = "duration" the returned flights are non-decreasing  *)
(* by the minutes of their duration label, "{h}h {m}m" counting 60h + m,   *)
(* "{h}h" 60h, "{m}m" m, and any other label 0.                            *)
(***************************************************************************)
\* the minutes a duration label stands for
LabelMinutes(label) ==
  LET d == Chars(label)
      e == DigitRunEnd(d, 1)
      n == ParseInt(SubSeq(d, 1, e - 1))
  IN IF e = 1 \/ e > Len(d) THEN 0
     ELSE IF d[e] = "m" THEN (IF e = Len(d) THEN n ELSE 0)
     ELSE IF d[e] # "h" THEN 0
     ELSE IF e = Len(d) THEN 60 * n
     ELSE LET k == e + 2
              e2 == DigitRunEnd(d, k)
          IN IF d[e + 1] = " " /\ e2 > k /\ e2 = Len(d) /\ d[e2] = "m"
             THEN 60 * n + ParseInt(SubSeq(d, k, e2 - 1))
             ELSE 0

C18_Original ==
  (Returned /\ call.sortBy = "duration") =>
    \A i, j \in 1..Len(ret) :
      i < j => LabelMinutes(ret[i].duration) <= LabelMinutes(ret[j].duration)

(***************************************************************************)
(* C19: for a duration PT{h}H{m}M, either part optional, with              *)
(* 60h + m > 0, the minutes read back from the rendered label are 60h + m. *)
(***************************************************************************)
IsoMinutes == 60 * ParseInt(call.hours) + ParseInt(call.minutes)

C19_Original ==
  (call.op = "parseDuration" /\ Len(ret) = 2 /\ IsoMinutes > 0)
    => ret[2] = IsoMinutes

(***************************************************************************)
(* C20: parseDuration renders "{h}h {m}m" when the hour and the minute     *)
(* component are both present, "{h}h" when only hours are, "{m}m" when     *)
(* only minutes are, and returns its argument when neither is.             *)
(* C20_Original reads "present" as written in the duration;                *)
(* C20_NonZeroComponents reads it as written and not zero, which is what   *)
(* holds.                                                                  *)
(***************************************************************************)
Rendered == call.op = "parseDuration" /\ Len(ret) >= 1

Present(component) == component # <<>>

NonZero(component) == component # <<>> /\ ParseInt(component) # 0

Numeral(component) == ToString(ParseInt(component))

C20_Original ==
  Rendered =>
    /\ (Present(call.hours) /\ Present(call.minutes))
         => ret[1] = Numeral(call.hours) \o "h " \o Numeral(call.minutes) \o "m"
    /\ (Present(call.hours) /\ ~Present(call.minutes))
         => ret[1] = Numeral(call.hours) \o "h"
    /\ (~Present(call.hours) /\ Present(call.minutes))
         => ret[1] = Numeral(call.minutes) \o "m"
    /\ (~Present(call.hours) /\ ~Present(call.minutes))
         => ret[1] = call.duration

C20_NonZeroComponents ==
  Rendered =>
    /\ (NonZero(call.hours) /\ NonZero(call.minutes))
         => ret[1] = Numeral(call.hours) \o "h " \o Numeral(call.minutes) \o "m"
    /\ (NonZero(call.hours) /\ ~NonZero(call.minutes))
         => ret[1] = Numeral(call.hours) \o "h"
    /\ (~NonZero(call.hours) /\ NonZero(call.minutes))
         => ret[1] = Numeral(call.minutes) \o "m"
    /\ (~NonZero(call.hours) /\ ~NonZero(call.minutes))
         => ret[1] = call.duration

C20_Witness ==
  /\ Rendered
  /\ call.duration = "PT2H00M"
  /\ call.hours = <<"2">>
  /\ call.minutes = <<"0", "0">>
  /\ ret[1] = "2h"

(***************************************************************************)
(* C21: the resolved name of a carrier code is the dictionary's entry      *)
(* whenever the dictionary has one, else the static name, else the code;   *)
(* for the primary carrier and for every segment's carrierName.            *)
(* An empty entry is passed over by ||: C21_Original counts every entry,   *)
(* C21_NonEmptyEntryWins the entries that are not the empty string.        *)
(***************************************************************************)
Transformed ==
  call.op = "transformFlightOffer" /\ ret # NoReturn /\ ret[1].kind = "return"

OfferSegments == call.offer.itineraries[1].segments

PrimaryCode ==
  IF call.offer.validatingAirlineCodes # <<>>
  THEN call.offer.validatingAirlineCodes[1]
  ELSE OfferSegments[1].carrierCode

HasEntry(code) ==
  call.carrierDictionary # {} /\
  code \in DOMAIN (CHOOSE d \in call.carrierDictionary : TRUE)

EntryOf(code) == (CHOOSE d \in call.carrierDictionary : TRUE)[code]

NameByEntry(code) ==
  IF HasEntry(code) THEN EntryOf(code)
  ELSE IF code \in DOMAIN AIRLINE_NAMES THEN AIRLINE_NAMES[code]
  ELSE code

NameByNonEmptyEntry(code) ==
  IF HasEntry(code) /\ EntryOf(code) # "" THEN EntryOf(code)
  ELSE IF code \in DOMAIN AIRLINE_NAMES THEN AIRLINE_NAMES[code]
  ELSE code

C21_Original ==
  Transformed =>
    /\ ret[1].value.airline = NameByEntry(PrimaryCode)
    /\ \A i \in 1..Len(OfferSegments) :
         ret[1].value.segments[i].carrierName = NameByEntry(OfferSegments[i].carrierCode)

C21_NonEmptyEntryWins ==
  Transformed =>
    /\ ret[1].value.airline = NameByNonEmptyEntry(PrimaryCode)
    /\ \A i \in 1..Len(OfferSegments) :
         ret[1].value.segments[i].carrierName =
           NameByNonEmptyEntry(OfferSegments[i].carrierCode)

C21_Witness ==
  /\ Transformed
  /\ call.carrierDictionary = { [code \in {"AA"} |-> "American Air"] }
  /\ call.offer.validatingAirlineCodes = <<>>
  /\ Len(OfferSegments) = 3
  /\ ret[1].value.airline = "American Air"
  /\ ret[1].value.segments[1].carrierName = "American Air"
  /\ ret[1].value.segments[2].carrierName = "Delta Air Lines"
  /\ ret[1].value.segments[3].carrierName = "ZZ"

(***************************************************************************)
(* C22: for an offer whose first itinerary has n >= 1 segments, stops is   *)
(* max(0, n-1), layovers has stops entries, entry i names the arrival      *)
(* airport of segment i, and segments are the n segments in order.         *)
(***************************************************************************)
\* every text a layover of less than three hours either way can carry
LayoverTexts ==
  { ToString(h) \o "h " \o ToString(m) \o "m" : h \in 0..2, m \in (0 - 59)..59 }
    \cup { ToString(m) \o "m" : m \in (0 - 59)..59 }

NamesAirport(label, airport) ==
  \E text \in LayoverTexts : label = airport \o " (" \o text \o ")"

C22_StopsLayoversSegments ==
  Transformed =>
    LET n == Len(OfferSegments)
        flight == ret[1].value
    IN /\ n >= 1
       /\ flight.stops = (IF n - 1 > 0 THEN n - 1 ELSE 0)
       /\ Len(flight.layovers) = flight.stops
       /\ \A i \in 1..flight.stops :
            NamesAirport(flight.layovers[i], OfferSegments[i].arrival.iataCode)
       /\ Len(flight.segments) = n
       /\ \A i \in 1..n :
            /\ flight.segments[i].id = OfferSegments[i].id
            /\ flight.segments[i].departure = OfferSegments[i].departure
            /\ flight.segments[i].arrival = OfferSegments[i].arrival
            /\ flight.segments[i].carrierCode = OfferSegments[i].carrierCode

C22_Witness ==
  /\ Transformed
  /\ Len(call.offer.itineraries) = 2
  /\ Len(OfferSegments) = 3
  /\ ret[1].value.stops = 2
  /\ Len(ret[1].value.layovers) = 2
  /\ ret[1].value.layovers[2] = "DEN (45m)"
  /\ ret[1].value.segments[3].arrival.iataCode = "LAX"

(***************************************************************************)
(* C23: a layover of X hours and Y minutes (X = gap div 60, Y = gap mod    *)
(* 60) is rendered "{airport} ({X}h {Y}m)", also when X is 0.              *)
(* The code leaves the hours out when X is 0: C23_Original is the claim    *)
(* for positive gaps, C23_HoursOnlyWhenPositive what holds for gaps that   *)
(* are not negative.                                                       *)
(***************************************************************************)
GapAfter(i) == OfferSegments[i + 1].departure.at - OfferSegments[i].arrival.at

C23_Original ==
  Transformed =>
    \A i \in 1..(Len(OfferSegments) - 1) :
      GapAfter(i) > 0 =>
        ret[1].value.layovers[i] =
          OfferSegments[i].arrival.iataCode \o " (" \o ToString(GapAfter(i) \div 60)
            \o "h " \o ToString(GapAfter(i) % 60) \o "m)"

C23_HoursOnlyWhenPositive ==
  Transformed =>
    \A i \in 1..(Len(OfferSegments) - 1) :
      /\ GapAfter(i) >= 60 =>
           ret[1].value.layovers[i] =
             OfferSegments[i].arrival.iataCode \o " (" \o ToString(GapAfter(i) \div 60)
               \o "h " \o ToString(GapAfter(i) % 60) \o "m)"
      /\ (0 <= GapAfter(i) /\ GapAfter(i) < 60) =>
           ret[1].value.layovers[i] =
             OfferSegments[i].arrival.iataCode \o " (" \o ToString(GapAfter(i)) \o "m)"

C23_Witness ==
  /\ Transformed
  /\ Len(OfferSegments) = 3
  /\ GapAfter(1) = 90
  /\ GapAfter(2) = 45
  /\ ret[1].value.layovers = <<"ORD (1h 30m)", "DEN (45m)">>

(***************************************************************************)
(* C24: for a gap that is zero or negative getLayovers does not raise,     *)
(* emits an entry for the pair, and the entry is "{airport} (0m)".         *)
(***************************************************************************)
C24_Original ==
  (call.op = "transformFlightOffer" /\ ret # NoReturn /\
   call.offer.itineraries # <<>> /\ OfferSegments # <<>>)
    => /\ ret[1].kind = "return"
       /\ Len(ret[1].value.layovers) = Len(OfferSegments) - 1
       /\ \A i \in 1..(Len(OfferSegments) - 1) :
            GapAfter(i) <= 0 =>
              ret[1].value.layovers[i] = OfferSegments[i].arrival.iataCode \o " (0m)"

(***************************************************************************)
(* C25: transformFlightOffer ends in MalformedOfferError on an offer       *)
(* without itineraries or whose first itinerary has no segments, and       *)
(* returns a record on every other offer.                                  *)
(***************************************************************************)
IsMalformed(offer) ==
  offer.itineraries = <<>> \/ offer.itineraries[1].segments = <<>>

C25_Original ==
  (call.op = "transformFlightOffer" /\ ret # NoReturn) =>
    IF IsMalformed(call.offer)
    THEN ret[1] = Throw("MalformedOfferError")
    ELSE ret[1].kind = "return"

(***************************************************************************)
(* C26: transformFlightOffers returns, for every batch, the records of     *)
(* the well-formed offers in batch order together with the number of       *)
(* malformed offers it dropped.                                            *)
(***************************************************************************)
WellFormedIds(data) ==
  SelectSeq([i \in 1..Len(data) |-> IF IsMalformed(data[i]) THEN "" ELSE data[i].id],
            LAMBDA id : id # "")

C26_Original ==
  (call.op = "transformFlightOffers" /\ ret # NoReturn) =>
    /\ ret[1].kind = "return"
    /\ [i \in 1..Len(ret[1].value) |-> ret[1].value[i].id]
         = WellFormedIds(call.response.data)
    /\ "dropped" \in DOMAIN ret[1]
    /\ ret[1].dropped = Len(call.response.data) - Len(ret[1].value)

(***************************************************************************)
(* C27: overlapping fetches of the search page.                            *)
(***************************************************************************)
Done == {i \in 1..Len(fetches) : fetches[i].pc = "done"}

Succeeded(i) ==
  /\ fetches[i].pc = "done"
  /\ \E response \in fetches[i].response :
       response.ok /\ response.success /\ response.data # {}

\* some run was started while the run before it was still waiting
Overlapped ==
  \E i \in 2..Len(fetches) : (i - 1) \in fetches[i].inFlightAtStart

\* once every run has completed, the store shows the search started last
C27_LatestSearchWins ==
  (/\ Overlapped
   /\ Done = 1..Len(fetches)
   /\ \A i \in 1..Len(fetches) : Succeeded(i))
  => LET latest == ResultsOf(fetches[Len(fetches)].params)
     IN /\ allFlights = latest
        /\ filteredFlights = applyFiltersAndSort(latest, filters)

\* isLoading is true as long as a request is out
C27_LoadingWhileInFlight == Awaiting # {} => isLoading

\* C27: when a second fetch is started before the first has completed, then
\* once both have completed allFlights and filteredFlights are the results of
\* the search started last, in whatever order the responses arrive; and
\* isLoading is true as long as any fetch is in flight.
C27_Original == C27_LatestSearchWins /\ C27_LoadingWhileInFlight

(***************************************************************************)
(* C28: the window a slider move sends to updateFilters.                   *)
(***************************************************************************)
OtherBound(type) == IF type = "min" THEN "max" ELSE "min"

\* the step is a run of handlePriceChange
SliderMoved == lastViewOp' = "updateFilters"

\* C28: after any sequence of setFlights, resetFilters and slider moves, the
\* priceRange that handlePriceChange(type, value) sends to updateFilters
\* differs from the store's current filters.priceRange only in the bound
\* named by type: the other bound has the store's current value.
C28_Original ==
  [][SliderMoved =>
       /\ call'.priceRange[call'.type] = call'.value
       /\ call'.priceRange[OtherBound(call'.type)] =
            filters.priceRange[OtherBound(call'.type)]]_vars

(***************************************************************************)
(* C29: the grouping step of the price chart.                              *)
(***************************************************************************)
\* the step is a render of the chart
ChartRendered == call = NoCall /\ call' # NoCall

\* the flights of the current view that depart at a time
ViewAt(time) ==
  {i \in 1..Len(filteredFlights) : filteredFlights[i].departureTime = time}

\* point carries the four fields of the flight
PointOf(point, flight) ==
  /\ point.price = flight.price
  /\ point.flightId = flight.id
  /\ point.stops = flight.stops
  /\ point.airline = flight.airline

\* one group per distinct time of chartData, in ascending order of time
C29_OneGroupPerTime ==
  [][ChartRendered =>
       /\ {ret'[i].time : i \in 1..Len(ret')} =
            {chartData[i].time : i \in 1..Len(chartData)}
       /\ \A i, j \in 1..Len(ret') :
            i < j => localeCompare(ret'[i].time, ret'[j].time) < 0]_vars

\* every group is one single flight, the cheapest of the view at its time
C29_GroupIsCheapestFlight ==
  [][ChartRendered =>
       \A g \in 1..Len(ret') :
         \E i \in ViewAt(ret'[g].time) :
           /\ PointOf(ret'[g], filteredFlights[i])
           /\ \A j \in ViewAt(ret'[g].time) :
                filteredFlights[i].price <= filteredFlights[j].price]_vars

\* the store's chartData is left as it was
C29_ChartDataKept == [][ChartRendered => chartData' = chartData]_vars

\* C29: the grouping yields exactly one point per distinct departure time of
\* chartData, ordered by time; the price, flightId, stops and airline of each
\* grouped point are those of one single flight, the lowest-priced flight of
\* the current view departing at that time; and the grouping does not modify
\* the store's chartData.
C29_Original ==
  [][ChartRendered =>
       /\ {ret'[i].time : i \in 1..Len(ret')} =
            {chartData[i].time : i \in 1..Len(chartData)}
       /\ \A i, j \in 1..Len(ret') :
            i < j => localeCompare(ret'[i].time, ret'[j].time) < 0
       /\ \A g \in 1..Len(ret') :
            \E i \in ViewAt(ret'[g].time) :
              /\ PointOf(ret'[g], filteredFlights[i])
              /\ \A j \in ViewAt(ret'[g].time) :
                   filteredFlights[i].price <= filteredFlights[j].price
       /\ chartData' = chartData]_vars

(***************************************************************************)
(* C30: the token cache of the Amadeus client.                             *)
(***************************************************************************)
\* the call that the step has added to, or taken from, the calls under way
CallEntered(c) == CopiesIn(c, clientCalls') > CopiesIn(c, clientCalls)

CallLeft(c) == CopiesIn(c, clientCalls) > CopiesIn(c, clientCalls')

CallsSeen == BagToSet(clientCalls) \cup BagToSet(clientCalls')

\* a token is cached and the time is strictly before its expiry
CachedAndFresh == cachedToken # Null /\ \E t \in tokenExpiryTime : now < t

\* the step enters searchFlights
SearchCalled(c) ==
  BagCardinality(clientCalls') = BagCardinality(clientCalls) + 1 /\ CallEntered(c)

\* the step takes call c from its authentication request to d
Authenticated(c, d) ==
  /\ BagCardinality(clientCalls') = BagCardinality(clientCalls)
  /\ CallLeft(c) /\ CallEntered(d)
  /\ c.pc = "post" /\ d.pc = "get"

\* the step ends call c
Completed(c) ==
  BagCardinality(clientCalls') = BagCardinality(clientCalls) - 1 /\ CallLeft(c)

====
